---- MODULE Spec2Model ----
(***************************************************************************)
(* pubsub-shovel: relaying messages from a Pub/Sub subscription to a topic.*)
(*                                                                         *)
(* The repository holds two near-duplicate jobs:                           *)
(*   entry = "shovel" : processShovelRequest (package shovel)              *)
(*   entry = "main"   : processMessages      (package main, main.go)       *)
(* One behaviour of the model is one job of one entry point: Spec is the   *)
(* specification of processShovelRequest, PMSpec of processMessages.       *)
(*                                                                         *)
(* The source subscription and the sink topic are the environment.  The    *)
(* source makes srcN deliveries (a redelivery of a nacked message is one   *)
(* more delivery) and the consumption loop may return once they are made.  *)
(* The sink resolves each publish to success or failure, or leaves it      *)
(* pending.  A delivery occupies one of MaxInFlight slots from the moment  *)
(* it is handed to the callback until the callback has returned and its    *)
(* goroutine has ended; the slot is then reused.  Timers (time.After,      *)
(* time.Sleep, the context deadline) may fire at any moment they are       *)
(* armed.                                                                  *)
(***************************************************************************)
EXTENDS Integers, FiniteSets, Sequences, TLC

\* ---- bounds of the model ------------------------------------------------
MaxInFlight == 2      \* deliveries tracked at once (callback or goroutine running)
MaxSrc      == 3      \* deliveries the source can make in one job
MaxNum      == 2      \* largest numMessages a request carries

\* ---- program constants --------------------------------------------------
AllMessagesLimit       == 10000   \* maxMessages of an allMessages job
MaxOutstandingMessages == 100     \* ReceiveSettings.MaxOutstandingMessages
DoneCap                == 1       \* capacity of `done` in processMessages
StatusAccepted         == 202     \* http.StatusAccepted
StatusNoContent        == 204     \* http.StatusNoContent
StatusBadRequest       == 400     \* http.StatusBadRequest
StatusMethodNotAllowed == 405     \* http.StatusMethodNotAllowed

Msgs == 1..MaxInFlight

VARIABLES
  entry,           \* which job runs: "shovel" or "main"
  NumMessages,     \* req.NumMessages
  AllMessages,     \* req.AllMessages
  srcN,            \* deliveries the source holds for this job
  srcFailed,       \* the source reported a fatal service error
  delivered,       \* deliveries handed to the callback so far
  hpc,             \* position of the callback invocation, per slot
  rpc,             \* position of the relay goroutine, per slot
  pub,             \* sink side of the publish, per slot
  publishErr,      \* what result.Get returned to the relay goroutine
  acks, nacks,     \* calls of msg.Ack() / msg.Nack() on the slot's delivery
  ord,             \* history: the slot's pending publish is of the ord-th admission
  sinkRejected,    \* history: the sink rejected some publish of this job
  settledAtRead,   \* history: no callback or goroutine was running at the final read
  acceptedCount,   \* part_000:158
  processedCount,  \* part_000:159, main.go:141
  mutex,           \* holder of mutex (part_000) / mu (main.go)
  cancelled,       \* the job's context is done
  recv,            \* position of the sourceSub.Receive call
  done,            \* tokens in the buffered `done` channel of main.go
  mpc,             \* position of the job function itself
  timedOut,        \* the job-level timeout fired
  finalAccepted,   \* part_000:232
  result,          \* returned count
  retErr,          \* returned error is non-nil
  failedCount,     \* history: relay goroutines that nacked (the code keeps no such counter)
  waitingAtTimeout,\* history: slots whose goroutine waited in result.Get when the timeout fired
  method,          \* r.Method of the HTTP request
  decoded,         \* the request body decodes as JSON
  SourceSubscription, \* req.SourceSubscription
  TargetTopic,     \* req.TargetTopic
  status,          \* HTTP status written by the handler, 0 before
  precheck         \* outcome of pubsub.NewClient and targetTopic.Exists for this job

vars == <<entry, NumMessages, AllMessages, srcN, srcFailed, delivered,
          hpc, rpc, pub, publishErr, acks, nacks, ord, sinkRejected,
          settledAtRead,
          acceptedCount,
          processedCount, mutex, cancelled, recv, done, mpc, timedOut,
          finalAccepted, result, retErr, failedCount, waitingAtTimeout,
          method, decoded, SourceSubscription, TargetTopic, status,
          precheck>>

reqVars == <<entry, NumMessages, AllMessages, srcN,
             method, decoded, SourceSubscription, TargetTopic, status,
             precheck>>
hist == <<ord, sinkRejected>>
aux == <<failedCount, waitingAtTimeout>>

Free == <<"free", 0>>

\* an allMessages job without a ceiling that its source can reach
maxMessagesNoCeiling ==
  IF AllMessages THEN 2 * AllMessagesLimit ELSE NumMessages

\* maxMessages := req.NumMessages; if req.AllMessages { maxMessages = 10000 }
maxMessages == IF AllMessages THEN AllMessagesLimit ELSE NumMessages

\* validateRequest: the modes a job can be started with
validateRequest(all, n) ==
  /\ ~(~all /\ n <= 0)
  /\ ~(all /\ n > 0)

\* validateRequest with the two resource names: the error it returns
ValidationErrorModeUnchecked(src, tgt, all, n) ==
  IF src = "" THEN "sourceSubscription is required"
  ELSE IF tgt = "" THEN "targetTopic is required"
  ELSE IF ~all /\ n <= 0
    THEN "numMessages must be greater than 0 when allMessages is false"
  ELSE "nil"

ValidationError(src, tgt, all, n) ==
  IF src = "" THEN "sourceSubscription is required"
  ELSE IF tgt = "" THEN "targetTopic is required"
  ELSE IF ~all /\ n <= 0
    THEN "numMessages must be greater than 0 when allMessages is false"
  ELSE IF all /\ n > 0
    THEN "cannot specify both allMessages=true and numMessages > 0"
  ELSE "nil"

\* callback invocations that have not returned
ActiveHandlers == {m \in Msgs : hpc[m] \notin {"idle", "ret"}}

\* deliveries neither acked nor nacked yet
Outstanding == {m \in Msgs : hpc[m] # "idle" /\ acks[m] + nacks[m] = 0}

\* the context handed to the callback: done when the Receive context is
\* done or the service failed fatally
HandlerCtxDone == cancelled \/ srcFailed

\* a Lock() that does not exclude
MutexFreeNoExclusion == TRUE

\* mutex.Lock() / mu.Lock() can proceed
MutexFree == mutex = Free

\* what the client creation and the existence check of the target topic
\* can come to (part_000:118-143, main.go:115-136)
Prechecks == {"ok", "newClientErr", "existsErr", "notExists"}

\* the requests a job is started with, and what the source holds
Request ==
  /\ AllMessages \in BOOLEAN
  /\ NumMessages \in 0..MaxNum
  /\ validateRequest(AllMessages, NumMessages)
  /\ srcN \in 0..MaxSrc
  /\ precheck \in Prechecks

\* the request the handler answered 202 Accepted to before it started the job
AcceptedRequest ==
  /\ method = "POST" /\ decoded = TRUE
  /\ SourceSubscription = "s" /\ TargetTopic = "t"
  /\ status = StatusAccepted

\* the variables of a job before anything has run
JobIdle ==
  /\ srcFailed = FALSE
  /\ delivered = 0
  /\ hpc = [m \in Msgs |-> "idle"]
  /\ rpc = [m \in Msgs |-> "none"]
  /\ pub = [m \in Msgs |-> "none"]
  /\ publishErr = [m \in Msgs |-> "unset"]
  /\ acks = [m \in Msgs |-> 0]
  /\ nacks = [m \in Msgs |-> 0]
  /\ ord = [m \in Msgs |-> 0]
  /\ sinkRejected = FALSE
  /\ settledAtRead = FALSE
  /\ acceptedCount = 0
  /\ processedCount = 0
  /\ mutex = Free
  /\ cancelled = FALSE
  /\ recv = "idle"
  /\ done = 0
  /\ timedOut = FALSE
  /\ finalAccepted = 0
  /\ result = 0
  /\ retErr = FALSE
  /\ failedCount = 0
  /\ waitingAtTimeout = {}

\* the state in which a job function is entered
JobStart ==
  /\ AcceptedRequest
  /\ JobIdle
  /\ mpc = "start"

\* a processShovelRequest job
Init == entry = "shovel" /\ Request /\ JobStart

\* a processMessages job
PMInit == entry = "main" /\ Request /\ JobStart

\* ---- the HTTP entry points: Handler (part_000) and ShovelMessages (main.go)

Methods == {"OPTIONS", "POST", "GET", "PUT"}

\* an HTTP request arrives; the body decodes to the four fields or does not
HandlerInit ==
  /\ entry \in {"shovel", "main"}
  /\ method \in Methods
  /\ decoded \in BOOLEAN
  /\ SourceSubscription \in {"", "s"}
  /\ TargetTopic \in {"", "t"}
  /\ AllMessages \in BOOLEAN
  /\ NumMessages \in -1..MaxNum
  /\ srcN = 0
  /\ precheck = "ok"
  /\ status = 0
  /\ JobIdle
  /\ mpc = "handler"

\* a handler that takes every method but OPTIONS for POST
HandlerAnyMethod ==
  /\ mpc = "handler"
  /\ LET code ==
           IF method = "OPTIONS" THEN StatusNoContent
           ELSE IF ~decoded THEN StatusBadRequest
           ELSE IF ValidationError(SourceSubscription, TargetTopic,
                                   AllMessages, NumMessages) # "nil"
             THEN StatusBadRequest
           ELSE StatusAccepted
     IN /\ status' = code
        /\ mpc' = IF code = StatusAccepted THEN "start" ELSE "refused"
  /\ UNCHANGED <<entry, NumMessages, AllMessages, srcN, method, decoded,
                 SourceSubscription, TargetTopic, precheck, aux, hist,
                 settledAtRead, srcFailed, delivered, hpc, rpc, pub,
                 publishErr, acks, nacks, acceptedCount, processedCount, mutex,
                 cancelled, recv, done, timedOut, finalAccepted, result,
                 retErr>>

\* a handler that starts the job and leaves the answer to it
HandlerAnswersLate ==
  /\ mpc = "handler"
  /\ LET code ==
           IF method = "OPTIONS" THEN StatusNoContent
           ELSE IF method # "POST" THEN StatusMethodNotAllowed
           ELSE IF ~decoded THEN StatusBadRequest
           ELSE IF ValidationError(SourceSubscription, TargetTopic,
                                   AllMessages, NumMessages) # "nil"
             THEN StatusBadRequest
           ELSE StatusAccepted
     IN /\ status' = IF code = StatusAccepted THEN 0 ELSE code
        /\ mpc' = IF code = StatusAccepted THEN "start" ELSE "refused"
  /\ UNCHANGED <<entry, NumMessages, AllMessages, srcN, method, decoded,
                 SourceSubscription, TargetTopic, precheck, aux, hist,
                 settledAtRead, srcFailed, delivered, hpc, rpc, pub,
                 publishErr, acks, nacks, acceptedCount, processedCount, mutex,
                 cancelled, recv, done, timedOut, finalAccepted, result,
                 retErr>>

\* the JSON body written next to a status code: ShovelResponse.Status and
\* whether a RequestID is set (part_000:86-90,282-285)
ResponseBody(code) ==
  IF code = StatusAccepted THEN [status |-> "accepted", requestId |-> TRUE]
  ELSE IF code = StatusNoContent THEN [status |-> "", requestId |-> FALSE]
  ELSE [status |-> "error", requestId |-> FALSE]

\* part_000:38-96, main.go:38-93: the handler answers the request and, for
\* 202 only, starts the job goroutine
Handler ==
  /\ mpc = "handler"
  /\ LET code ==
           IF method = "OPTIONS" THEN StatusNoContent
           ELSE IF method # "POST" THEN StatusMethodNotAllowed
           ELSE IF ~decoded THEN StatusBadRequest
           ELSE IF ValidationError(SourceSubscription, TargetTopic,
                                   AllMessages, NumMessages) # "nil"
             THEN StatusBadRequest
           ELSE StatusAccepted
     IN /\ status' = code
        /\ mpc' = IF code = StatusAccepted THEN "start" ELSE "refused"
  /\ UNCHANGED <<entry, NumMessages, AllMessages, srcN, method, decoded,
                 SourceSubscription, TargetTopic, precheck, aux, hist,
                 settledAtRead, srcFailed, delivered, hpc, rpc, pub,
                 publishErr, acks, nacks, acceptedCount, processedCount, mutex,
                 cancelled, recv, done, timedOut, finalAccepted, result,
                 retErr>>

HandlerNext == Handler

HandlerSpec == HandlerInit /\ [][HandlerNext]_vars

\* ---- the environment: source and sink ------------------------------------

\* a slot whose delivery is over: callback returned, goroutine ended
Finished(m) == hpc[m] = "ret" /\ rpc[m] \in {"none", "done"}

\* the slot the next delivery takes: the lowest unused one, else the
\* lowest finished one
IdleSlots == {m \in Msgs : hpc[m] = "idle"}
FinishedSlots == {m \in Msgs : Finished(m)}
Lowest(S) == CHOOSE m \in S : \A k \in S : m <= k
NextSlot(m) ==
  IF IdleSlots # {} THEN m = Lowest(IdleSlots)
  ELSE FinishedSlots # {} /\ m = Lowest(FinishedSlots)

\* a consumption loop that holds the next delivery back until every forward
\* has been resolved
DeliverAfterConfirm(m) ==
  /\ recv = "receiving"
  /\ ~cancelled /\ ~srcFailed
  /\ delivered < srcN
  /\ NextSlot(m)
  /\ \A k \in Msgs : pub[k] # "pending"
  /\ Cardinality(Outstanding) < MaxOutstandingMessages
  /\ delivered' = delivered + 1
  /\ hpc' = [hpc EXCEPT ![m] = IF entry = "shovel" THEN "lock" ELSE "select"]
  /\ rpc' = [rpc EXCEPT ![m] = "none"]
  /\ pub' = [pub EXCEPT ![m] = "none"]
  /\ publishErr' = [publishErr EXCEPT ![m] = "unset"]
  /\ acks' = [acks EXCEPT ![m] = 0]
  /\ nacks' = [nacks EXCEPT ![m] = 0]
  /\ ord' = [ord EXCEPT ![m] = 0]
  /\ UNCHANGED <<reqVars, aux, settledAtRead, sinkRejected,
                 srcFailed, acceptedCount, processedCount, mutex,
                 cancelled, recv, done, mpc, timedOut, finalAccepted, result,
                 retErr>>

\* the consumption loop hands the next delivery to a new callback invocation
Deliver(m) ==
  /\ recv = "receiving"
  /\ ~cancelled /\ ~srcFailed
  /\ delivered < srcN
  /\ NextSlot(m)
  /\ Cardinality(Outstanding) < MaxOutstandingMessages
  /\ delivered' = delivered + 1
  /\ hpc' = [hpc EXCEPT ![m] = IF entry = "shovel" THEN "lock" ELSE "select"]
  /\ rpc' = [rpc EXCEPT ![m] = "none"]
  /\ pub' = [pub EXCEPT ![m] = "none"]
  /\ publishErr' = [publishErr EXCEPT ![m] = "unset"]
  /\ acks' = [acks EXCEPT ![m] = 0]
  /\ nacks' = [nacks EXCEPT ![m] = 0]
  /\ ord' = [ord EXCEPT ![m] = 0]
  /\ UNCHANGED <<reqVars, aux, settledAtRead, sinkRejected,
                 srcFailed, acceptedCount, processedCount, mutex,
                 cancelled, recv, done, mpc, timedOut, finalAccepted, result,
                 retErr>>

\* the service fails fatally while the loop runs
SourceFail ==
  /\ recv = "receiving" /\ ~srcFailed
  /\ srcFailed' = TRUE
  /\ UNCHANGED <<reqVars, aux, settledAtRead, hist,
                 delivered, hpc, rpc, pub, publishErr, acks, nacks,
                 acceptedCount, processedCount, mutex, cancelled, recv, done,
                 mpc, timedOut, finalAccepted, result, retErr>>

\* the sink resolves a publish
SinkResolve(m, r) ==
  /\ pub[m] = "pending"
  /\ pub' = [pub EXCEPT ![m] = r]
  /\ sinkRejected' = (sinkRejected \/ r = "fail")
  /\ ord' = [ord EXCEPT ![m] = 0]
  /\ UNCHANGED <<reqVars, aux, settledAtRead,
                 srcFailed, delivered, hpc, rpc, publishErr,
                 acks, nacks, acceptedCount, processedCount, mutex, cancelled,
                 recv, done, mpc, timedOut, finalAccepted, result, retErr>>

\* a Get that waits for the publish result alone
GetEnabledResultOnly(m) == pub[m] \in {"ok", "fail"}

\* what result.Get(ctx) can return for delivery m in the current state:
\* the publish result once it is ready, ctx.Err() once the context is done
GetEnabled(m) == pub[m] \in {"ok", "fail"} \/ HandlerCtxDone
GetOutcomes(m) ==
  (IF pub[m] = "ok" THEN {"nil"} ELSE {})
    \cup (IF pub[m] = "fail" THEN {"err"} ELSE {})
    \cup (IF HandlerCtxDone THEN {"err"} ELSE {})

\* ---- processShovelRequest: the callback (part_000:167-206) ---------------

HLock(m) ==
  /\ entry = "shovel" /\ hpc[m] = "lock"
  /\ MutexFree
  /\ mutex' = <<"h", m>>
  /\ hpc' = [hpc EXCEPT ![m] = "check"]
  /\ UNCHANGED <<reqVars, aux, settledAtRead, hist,
                 srcFailed, delivered, rpc, pub, publishErr, acks,
                 nacks, acceptedCount, processedCount, cancelled, recv, done,
                 mpc, timedOut, finalAccepted, result, retErr>>

\* an admission test on the count published instead of the count accepted
HCheckOnPublished(m) ==
  /\ entry = "shovel" /\ hpc[m] = "check"
  /\ IF processedCount >= maxMessages
       THEN /\ mutex' = Free
            /\ hpc' = [hpc EXCEPT ![m] = "nack"]
       ELSE /\ mutex' = mutex
            /\ hpc' = [hpc EXCEPT ![m] = "accept"]
  /\ UNCHANGED <<reqVars, aux, settledAtRead, hist,
                 srcFailed, delivered, rpc, pub, publishErr, acks,
                 nacks, acceptedCount, processedCount, cancelled, recv, done,
                 mpc, timedOut, finalAccepted, result, retErr>>

\* part_000:170-171: the test, and on rejection the unlock
HCheck(m) ==
  /\ entry = "shovel" /\ hpc[m] = "check"
  /\ IF acceptedCount >= maxMessages
       THEN /\ mutex' = Free
            /\ hpc' = [hpc EXCEPT ![m] = "nack"]
       ELSE /\ mutex' = mutex
            /\ hpc' = [hpc EXCEPT ![m] = "accept"]
  /\ UNCHANGED <<reqVars, aux, settledAtRead, hist,
                 srcFailed, delivered, rpc, pub, publishErr, acks,
                 nacks, acceptedCount, processedCount, cancelled, recv, done,
                 mpc, timedOut, finalAccepted, result, retErr>>

\* a rejection that does not nack
HNackSkipped(m) ==
  /\ entry = "shovel" /\ hpc[m] = "nack"
  /\ hpc' = [hpc EXCEPT ![m] = "cancel"]
  /\ UNCHANGED <<reqVars, aux, settledAtRead, hist,
                 srcFailed, delivered, rpc, pub, publishErr, acks, nacks,
                 acceptedCount, processedCount, mutex, cancelled, recv, done,
                 mpc, timedOut, finalAccepted, result, retErr>>

HNack(m) ==
  /\ entry = "shovel" /\ hpc[m] = "nack"
  /\ nacks' = [nacks EXCEPT ![m] = @ + 1]
  /\ hpc' = [hpc EXCEPT ![m] = "cancel"]
  /\ UNCHANGED <<reqVars, aux, settledAtRead, hist,
                 srcFailed, delivered, rpc, pub, publishErr, acks,
                 acceptedCount, processedCount, mutex, cancelled, recv, done,
                 mpc, timedOut, finalAccepted, result, retErr>>

\* a cancel() that flips the signal
HCancelToggles(m) ==
  /\ entry = "shovel" /\ hpc[m] = "cancel"
  /\ cancelled' = ~cancelled
  /\ hpc' = [hpc EXCEPT ![m] = "ret"]
  /\ UNCHANGED <<reqVars, aux, settledAtRead, hist,
                 srcFailed, delivered, rpc, pub, publishErr, acks,
                 nacks, acceptedCount, processedCount, mutex, recv, done, mpc,
                 timedOut, finalAccepted, result, retErr>>

HCancel(m) ==
  /\ entry = "shovel" /\ hpc[m] = "cancel"
  /\ cancelled' = TRUE
  /\ hpc' = [hpc EXCEPT ![m] = "ret"]
  /\ UNCHANGED <<reqVars, aux, settledAtRead, hist,
                 srcFailed, delivered, rpc, pub, publishErr, acks,
                 nacks, acceptedCount, processedCount, mutex, recv, done, mpc,
                 timedOut, finalAccepted, result, retErr>>

Admit(m) ==
  /\ entry = "shovel" /\ hpc[m] = "accept"
  /\ acceptedCount' = acceptedCount + 1
  /\ mutex' = Free
  /\ hpc' = [hpc EXCEPT ![m] = "publish"]
  /\ UNCHANGED <<reqVars, aux, settledAtRead, sinkRejected,
                 srcFailed, delivered, rpc, pub,
                 publishErr, acks, nacks, processedCount, cancelled, recv,
                 done, mpc, timedOut, finalAccepted, result, retErr>>

\* an admission that is not counted
HAcceptUncounted(m) ==
  /\ entry = "shovel" /\ hpc[m] = "accept"
  /\ mutex' = Free
  /\ hpc' = [hpc EXCEPT ![m] = "publish"]
  /\ UNCHANGED <<reqVars, aux, settledAtRead, hist, acceptedCount,
                 srcFailed, delivered, rpc, pub,
                 publishErr, acks, nacks, processedCount, cancelled, recv,
                 done, mpc, timedOut, finalAccepted, result, retErr>>

\* part_000:176-179: the admission
HAccept(m) == Admit(m) /\ UNCHANGED ord

\* part_000:184-190,206: Publish, start the goroutine, return
HPublish(m) ==
  /\ entry = "shovel" /\ hpc[m] = "publish"
  /\ pub' = [pub EXCEPT ![m] = "pending"]
  /\ rpc' = [rpc EXCEPT ![m] = "get"]
  /\ hpc' = [hpc EXCEPT ![m] = "ret"]
  /\ UNCHANGED <<reqVars, aux, settledAtRead, hist,
                 srcFailed, delivered, publishErr, acks, nacks,
                 acceptedCount, processedCount, mutex, cancelled, recv, done,
                 mpc, timedOut, finalAccepted, result, retErr>>

\* ---- processShovelRequest: the relay goroutine (part_000:190-205) --------

\* a goroutine that acks whatever result.Get returned
RGetAlwaysAcks(m) ==
  /\ entry = "shovel" /\ rpc[m] = "get"
  /\ GetEnabled(m)
  /\ \E e \in GetOutcomes(m) :
       /\ publishErr' = [publishErr EXCEPT ![m] = e]
       /\ rpc' = [rpc EXCEPT ![m] = "ack"]
  /\ UNCHANGED <<reqVars, aux, settledAtRead, hist,
                 srcFailed, delivered, hpc, pub, acks, nacks,
                 acceptedCount, processedCount, mutex, cancelled, recv, done,
                 mpc, timedOut, finalAccepted, result, retErr>>

RGet(m) ==
  /\ entry = "shovel" /\ rpc[m] = "get"
  /\ GetEnabled(m)
  /\ \E e \in GetOutcomes(m) :
       /\ publishErr' = [publishErr EXCEPT ![m] = e]
       /\ rpc' = [rpc EXCEPT ![m] = IF e = "nil" THEN "ack" ELSE "nack"]
  /\ UNCHANGED <<reqVars, aux, settledAtRead, hist,
                 srcFailed, delivered, hpc, pub, acks, nacks,
                 acceptedCount, processedCount, mutex, cancelled, recv, done,
                 mpc, timedOut, finalAccepted, result, retErr>>

\* the failed relay gives its slot back: acceptedCount--
RNackFreesSlot(m) ==
  /\ entry = "shovel" /\ rpc[m] = "nack"
  /\ nacks' = [nacks EXCEPT ![m] = @ + 1]
  /\ acceptedCount' = acceptedCount - 1
  /\ rpc' = [rpc EXCEPT ![m] = "done"]
  /\ failedCount' = failedCount + 1
  /\ UNCHANGED <<reqVars, waitingAtTimeout, settledAtRead, hist,
                 srcFailed, delivered, hpc, pub, publishErr, acks,
                 processedCount, mutex, cancelled, recv, done,
                 mpc, timedOut, finalAccepted, result, retErr>>

\* the error branch falls through to the ack of the else branch
RNackFallThrough(m) ==
  /\ entry = "shovel" /\ rpc[m] = "nack"
  /\ nacks' = [nacks EXCEPT ![m] = @ + 1]
  /\ rpc' = [rpc EXCEPT ![m] = "ack"]
  /\ failedCount' = failedCount + 1
  /\ UNCHANGED <<reqVars, waitingAtTimeout, settledAtRead, hist,
                 srcFailed, delivered, hpc, pub, publishErr, acks,
                 acceptedCount, processedCount, mutex, cancelled, recv, done,
                 mpc, timedOut, finalAccepted, result, retErr>>

\* the failed relay also cancels the job
RNackAborts(m) ==
  /\ entry = "shovel" /\ rpc[m] = "nack"
  /\ nacks' = [nacks EXCEPT ![m] = @ + 1]
  /\ rpc' = [rpc EXCEPT ![m] = "done"]
  /\ failedCount' = failedCount + 1
  /\ cancelled' = TRUE
  /\ UNCHANGED <<reqVars, waitingAtTimeout, settledAtRead, hist,
                 srcFailed, delivered, hpc, pub, publishErr, acks,
                 acceptedCount, processedCount, mutex, recv, done,
                 mpc, timedOut, finalAccepted, result, retErr>>

\* the failed relay ends without settling its delivery
RNackAbandons(m) ==
  /\ entry = "shovel" /\ rpc[m] = "nack"
  /\ rpc' = [rpc EXCEPT ![m] = "done"]
  /\ failedCount' = failedCount + 1
  /\ UNCHANGED <<reqVars, waitingAtTimeout, settledAtRead, hist,
                 srcFailed, delivered, hpc, pub, publishErr, acks, nacks,
                 acceptedCount, processedCount, mutex, cancelled, recv, done,
                 mpc, timedOut, finalAccepted, result, retErr>>

\* part_000:192-194: publishErr != nil: msg.Nack()
RNack(m) ==
  /\ entry = "shovel" /\ rpc[m] = "nack"
  /\ nacks' = [nacks EXCEPT ![m] = @ + 1]
  /\ rpc' = [rpc EXCEPT ![m] = "done"]
  /\ failedCount' = failedCount + 1
  /\ UNCHANGED <<reqVars, waitingAtTimeout, settledAtRead, hist,
                 srcFailed, delivered, hpc, pub, publishErr, acks,
                 acceptedCount, processedCount, mutex, cancelled, recv, done,
                 mpc, timedOut, finalAccepted, result, retErr>>

RAck(m) ==
  /\ entry = "shovel" /\ rpc[m] = "ack"
  /\ acks' = [acks EXCEPT ![m] = @ + 1]
  /\ rpc' = [rpc EXCEPT ![m] = "lock"]
  /\ UNCHANGED <<reqVars, aux, settledAtRead, hist,
                 srcFailed, delivered, hpc, pub, publishErr, nacks,
                 acceptedCount, processedCount, mutex, cancelled, recv, done,
                 mpc, timedOut, finalAccepted, result, retErr>>

RLock(m) ==
  /\ entry = "shovel" /\ rpc[m] = "lock"
  /\ MutexFree
  /\ mutex' = <<"r", m>>
  /\ rpc' = [rpc EXCEPT ![m] = "inc"]
  /\ UNCHANGED <<reqVars, aux, settledAtRead, hist,
                 srcFailed, delivered, hpc, pub, publishErr, acks,
                 nacks, acceptedCount, processedCount, cancelled, recv, done,
                 mpc, timedOut, finalAccepted, result, retErr>>

\* the increment of processedCount is lost
RIncLost(m) ==
  /\ entry = "shovel" /\ rpc[m] = "inc"
  /\ mutex' = Free
  /\ rpc' = [rpc EXCEPT ![m] = "done"]
  /\ UNCHANGED <<reqVars, aux, settledAtRead, hist,
                 srcFailed, delivered, hpc, pub, publishErr, acks,
                 nacks, acceptedCount, processedCount, cancelled, recv, done,
                 mpc, timedOut, finalAccepted, result, retErr>>

\* a success that is counted twice
RIncTwice(m) ==
  /\ entry = "shovel" /\ rpc[m] = "inc"
  /\ processedCount' = processedCount + 2
  /\ mutex' = Free
  /\ rpc' = [rpc EXCEPT ![m] = "done"]
  /\ UNCHANGED <<reqVars, aux, settledAtRead, hist,
                 srcFailed, delivered, hpc, pub, publishErr, acks,
                 nacks, acceptedCount, cancelled, recv, done, mpc, timedOut,
                 finalAccepted, result, retErr>>

\* part_000:200-202: processedCount++; mutex.Unlock()
RInc(m) ==
  /\ entry = "shovel" /\ rpc[m] = "inc"
  /\ processedCount' = processedCount + 1
  /\ mutex' = Free
  /\ rpc' = [rpc EXCEPT ![m] = "done"]
  /\ UNCHANGED <<reqVars, aux, settledAtRead, hist,
                 srcFailed, delivered, hpc, pub, publishErr, acks,
                 nacks, acceptedCount, cancelled, recv, done, mpc, timedOut,
                 finalAccepted, result, retErr>>

\* ---- processMessages: the callback (main.go:157-211) ---------------------

\* select { case <-done: return; default: }   (the receive takes the token)
PMSelect(m) ==
  /\ entry = "main" /\ hpc[m] = "select"
  /\ IF done > 0
       THEN /\ done' = done - 1
            /\ hpc' = [hpc EXCEPT ![m] = "ack"]
       ELSE /\ done' = done
            /\ hpc' = [hpc EXCEPT ![m] = "spawn"]
  /\ UNCHANGED <<reqVars, aux, settledAtRead, hist,
                 srcFailed, delivered, rpc, pub, publishErr, acks,
                 nacks, acceptedCount, processedCount, mutex, cancelled, recv,
                 mpc, timedOut, finalAccepted, result, retErr>>

\* wg.Add(1); go func(message) {...}(msg)
PMSpawn(m) ==
  /\ entry = "main" /\ hpc[m] = "spawn"
  /\ rpc' = [rpc EXCEPT ![m] = "publish"]
  /\ hpc' = [hpc EXCEPT ![m] = IF AllMessages THEN "ack" ELSE "read"]
  /\ UNCHANGED <<reqVars, aux, settledAtRead, hist,
                 srcFailed, delivered, pub, publishErr, acks, nacks,
                 acceptedCount, processedCount, mutex, cancelled, recv, done,
                 mpc, timedOut, finalAccepted, result, retErr>>

\* mu.Lock(); current := processedCount; mu.Unlock(); if current >= NumMessages
PMRead(m) ==
  /\ entry = "main" /\ hpc[m] = "read"
  /\ MutexFree
  /\ hpc' = [hpc EXCEPT ![m] =
               IF processedCount >= NumMessages THEN "send" ELSE "ack"]
  /\ UNCHANGED <<reqVars, aux, settledAtRead, hist,
                 srcFailed, delivered, rpc, pub, publishErr, acks,
                 nacks, acceptedCount, processedCount, mutex, cancelled, recv,
                 done, mpc, timedOut, finalAccepted, result, retErr>>

\* select { case done <- true: default: }
PMSend(m) ==
  /\ entry = "main" /\ hpc[m] = "send"
  /\ done' = IF done < DoneCap THEN done + 1 ELSE done
  /\ hpc' = [hpc EXCEPT ![m] = "ack"]
  /\ UNCHANGED <<reqVars, aux, settledAtRead, hist,
                 srcFailed, delivered, rpc, pub, publishErr, acks,
                 nacks, acceptedCount, processedCount, mutex, cancelled, recv,
                 mpc, timedOut, finalAccepted, result, retErr>>

\* defer msg.Ack(), run when the callback returns
PMAck(m) ==
  /\ entry = "main" /\ hpc[m] = "ack"
  /\ acks' = [acks EXCEPT ![m] = @ + 1]
  /\ hpc' = [hpc EXCEPT ![m] = "ret"]
  /\ UNCHANGED <<reqVars, aux, settledAtRead, hist,
                 srcFailed, delivered, rpc, pub, publishErr, nacks,
                 acceptedCount, processedCount, mutex, cancelled, recv, done,
                 mpc, timedOut, finalAccepted, result, retErr>>

\* ---- processMessages: the publish goroutine (main.go:168-197) -------------

PMPublish(m) ==
  /\ entry = "main" /\ rpc[m] = "publish"
  /\ pub' = [pub EXCEPT ![m] = "pending"]
  /\ rpc' = [rpc EXCEPT ![m] = "get"]
  /\ UNCHANGED <<reqVars, aux, settledAtRead, hist,
                 srcFailed, delivered, hpc, publishErr, acks, nacks,
                 acceptedCount, processedCount, mutex, cancelled, recv, done,
                 mpc, timedOut, finalAccepted, result, retErr>>

PMGet(m) ==
  /\ entry = "main" /\ rpc[m] = "get"
  /\ GetEnabled(m)
  /\ \E e \in GetOutcomes(m) :
       /\ publishErr' = [publishErr EXCEPT ![m] = e]
       /\ rpc' = [rpc EXCEPT ![m] = IF e = "nil" THEN "lock" ELSE "done"]
  /\ UNCHANGED <<reqVars, aux, settledAtRead, hist,
                 srcFailed, delivered, hpc, pub, acks, nacks,
                 acceptedCount, processedCount, mutex, cancelled, recv, done,
                 mpc, timedOut, finalAccepted, result, retErr>>

PMLock(m) ==
  /\ entry = "main" /\ rpc[m] = "lock"
  /\ MutexFree
  /\ mutex' = <<"r", m>>
  /\ rpc' = [rpc EXCEPT ![m] = "inc"]
  /\ UNCHANGED <<reqVars, aux, settledAtRead, hist,
                 srcFailed, delivered, hpc, pub, publishErr, acks,
                 nacks, acceptedCount, processedCount, cancelled, recv, done,
                 mpc, timedOut, finalAccepted, result, retErr>>

\* processedCount++; current := processedCount; mu.Unlock();
\* if !req.AllMessages && current >= req.NumMessages
PMInc(m) ==
  /\ entry = "main" /\ rpc[m] = "inc"
  /\ processedCount' = processedCount + 1
  /\ mutex' = Free
  /\ rpc' = [rpc EXCEPT ![m] =
               IF ~AllMessages /\ processedCount + 1 >= NumMessages
                 THEN "send" ELSE "done"]
  /\ UNCHANGED <<reqVars, aux, settledAtRead, hist,
                 srcFailed, delivered, hpc, pub, publishErr, acks,
                 nacks, acceptedCount, cancelled, recv, done, mpc, timedOut,
                 finalAccepted, result, retErr>>

PMTaskSend(m) ==
  /\ entry = "main" /\ rpc[m] = "send"
  /\ done' = IF done < DoneCap THEN done + 1 ELSE done
  /\ rpc' = [rpc EXCEPT ![m] = "done"]
  /\ UNCHANGED <<reqVars, aux, settledAtRead, hist,
                 srcFailed, delivered, hpc, pub, publishErr, acks,
                 nacks, acceptedCount, processedCount, mutex, cancelled, recv,
                 mpc, timedOut, finalAccepted, result, retErr>>

\* ---- the job functions ---------------------------------------------------

\* pubsub.NewClient or targetTopic.Exists fails, or the topic does not exist
StartFail ==
  /\ mpc = "start"
  /\ precheck # "ok"
  /\ mpc' = "returned"
  /\ result' = 0
  /\ retErr' = TRUE
  /\ UNCHANGED <<reqVars, aux, settledAtRead, hist,
                 srcFailed, delivered, hpc, rpc, pub, publishErr,
                 acks, nacks, acceptedCount, processedCount, mutex, cancelled,
                 recv, done, timedOut, finalAccepted>>

\* the consumption loop is started without the checks
StartReceiveUnchecked ==
  /\ mpc = "start"
  /\ mpc' = IF entry = "shovel" THEN "select" ELSE "receive"
  /\ recv' = "receiving"
  /\ UNCHANGED <<reqVars, aux, settledAtRead, hist,
                 srcFailed, delivered, hpc, rpc, pub, publishErr,
                 acks, nacks, acceptedCount, processedCount, mutex, cancelled,
                 done, timedOut, finalAccepted, result, retErr>>

\* the checks pass and the consumption loop is started
StartReceive ==
  /\ mpc = "start"
  /\ precheck = "ok"
  /\ mpc' = IF entry = "shovel" THEN "select" ELSE "receive"
  /\ recv' = "receiving"
  /\ UNCHANGED <<reqVars, aux, settledAtRead, hist,
                 srcFailed, delivered, hpc, rpc, pub, publishErr,
                 acks, nacks, acceptedCount, processedCount, mutex, cancelled,
                 done, timedOut, finalAccepted, result, retErr>>

\* sourceSub.Receive returns: every callback has returned and the context
\* is done, the service failed, or the source is drained
ReceiveCanReturn ==
  /\ recv = "receiving"
  /\ ActiveHandlers = {}
  /\ cancelled \/ srcFailed \/ delivered = srcN

\* a Receive that does not return when its context is cancelled
ReceiveReturnIgnoresCancel ==
  /\ entry = "shovel"
  /\ recv = "receiving"
  /\ ActiveHandlers = {}
  /\ srcFailed \/ delivered = srcN
  /\ recv' = "sending"
  /\ UNCHANGED <<reqVars, aux, settledAtRead, hist,
                 srcFailed, delivered, hpc, rpc, pub, publishErr,
                 acks, nacks, acceptedCount, processedCount, mutex, cancelled,
                 done, mpc, timedOut, finalAccepted, result, retErr>>

\* part_000:166-212: the goroutine goes on to `done <- true`
ReceiveReturn ==
  /\ entry = "shovel"
  /\ ReceiveCanReturn
  /\ recv' = "sending"
  /\ UNCHANGED <<reqVars, aux, settledAtRead, hist,
                 srcFailed, delivered, hpc, rpc, pub, publishErr,
                 acks, nacks, acceptedCount, processedCount, mutex, cancelled,
                 done, mpc, timedOut, finalAccepted, result, retErr>>

\* a select that takes the done case before anything was sent
MainDoneEarly ==
  /\ entry = "shovel" /\ mpc = "select"
  /\ mpc' = "sleep"
  /\ UNCHANGED <<reqVars, aux, settledAtRead, hist,
                 srcFailed, delivered, hpc, rpc, pub, publishErr,
                 acks, nacks, acceptedCount, processedCount, mutex, cancelled,
                 recv, done, timedOut, finalAccepted, result, retErr>>

\* part_000:220-222: case <-done, the rendezvous with the goroutine's send
MainDone ==
  /\ entry = "shovel" /\ mpc = "select"
  /\ recv = "sending"
  /\ recv' = "exit"
  /\ mpc' = "sleep"
  /\ UNCHANGED <<reqVars, aux, settledAtRead, hist,
                 srcFailed, delivered, hpc, rpc, pub, publishErr,
                 acks, nacks, acceptedCount, processedCount, mutex, cancelled,
                 done, timedOut, finalAccepted, result, retErr>>

TimeoutFires ==
  /\ entry = "shovel" /\ mpc = "select"
  /\ timedOut' = TRUE
  /\ cancelled' = TRUE
  /\ mpc' = "sleep"
  /\ UNCHANGED <<reqVars, failedCount, settledAtRead, hist,
                 srcFailed, delivered, hpc, rpc, pub, publishErr,
                 acks, nacks, acceptedCount, processedCount, mutex, recv, done,
                 finalAccepted, result, retErr>>

\* a select without the timer case
MainTimeoutUnarmed == FALSE /\ UNCHANGED vars

\* part_000:223-225: case <-time.After(timeout): cancel()
MainTimeout == TimeoutFires /\ UNCHANGED waitingAtTimeout

\* part_000:229: time.Sleep(2 * time.Second)
MainSleep ==
  /\ entry = "shovel" /\ mpc = "sleep"
  /\ mpc' = "final"
  /\ UNCHANGED <<reqVars, aux, settledAtRead, hist,
                 srcFailed, delivered, hpc, rpc, pub, publishErr,
                 acks, nacks, acceptedCount, processedCount, mutex, cancelled,
                 recv, done, timedOut, finalAccepted, result, retErr>>

\* the job returns 0 instead of the counter
MainFinalDiscards ==
  /\ entry = "shovel" /\ mpc = "final"
  /\ MutexFree
  /\ finalAccepted' = acceptedCount
  /\ settledAtRead' = (\A m \in Msgs : hpc[m] = "idle" \/ Finished(m))
  /\ result' = 0
  /\ retErr' = FALSE
  /\ cancelled' = TRUE
  /\ mpc' = "returned"
  /\ UNCHANGED <<reqVars, aux, hist, srcFailed, delivered, hpc, rpc, pub, publishErr,
                 acks, nacks, acceptedCount, processedCount, mutex, recv, done,
                 timedOut>>

\* the two counters are read into each other's result
MainFinalSwapped ==
  /\ entry = "shovel" /\ mpc = "final"
  /\ MutexFree
  /\ finalAccepted' = processedCount
  /\ settledAtRead' = (\A m \in Msgs : hpc[m] = "idle" \/ Finished(m))
  /\ result' = acceptedCount
  /\ retErr' = FALSE
  /\ cancelled' = TRUE
  /\ mpc' = "returned"
  /\ UNCHANGED <<reqVars, aux, hist, srcFailed, delivered, hpc, rpc, pub, publishErr,
                 acks, nacks, acceptedCount, processedCount, mutex, recv, done,
                 timedOut>>

\* part_000:231-237: the final read under the mutex, the return and the
\* deferred cancel()
MainFinal ==
  /\ entry = "shovel" /\ mpc = "final"
  /\ MutexFree
  /\ finalAccepted' = acceptedCount
  /\ settledAtRead' = (\A m \in Msgs : hpc[m] = "idle" \/ Finished(m))
  /\ result' = processedCount
  /\ retErr' = FALSE
  /\ cancelled' = TRUE
  /\ mpc' = "returned"
  /\ UNCHANGED <<reqVars, aux, hist, srcFailed, delivered, hpc, rpc, pub, publishErr,
                 acks, nacks, acceptedCount, processedCount, mutex, recv, done,
                 timedOut>>

\* main.go:151: the deadline of receiveCtx passes
PMDeadline ==
  /\ entry = "main" /\ mpc = "receive"
  /\ ~cancelled
  /\ timedOut' = TRUE
  /\ cancelled' = TRUE
  /\ UNCHANGED <<reqVars, aux, settledAtRead, hist,
                 srcFailed, delivered, hpc, rpc, pub, publishErr,
                 acks, nacks, acceptedCount, processedCount, mutex, recv, done,
                 mpc, finalAccepted, result, retErr>>

\* main.go:157,211: Receive returns to processMessages
PMReceiveReturn ==
  /\ entry = "main" /\ mpc = "receive"
  /\ ReceiveCanReturn
  /\ recv' = "exit"
  /\ mpc' = "wait"
  /\ UNCHANGED <<reqVars, aux, settledAtRead, hist,
                 srcFailed, delivered, hpc, rpc, pub, publishErr,
                 acks, nacks, acceptedCount, processedCount, mutex, cancelled,
                 done, timedOut, finalAccepted, result, retErr>>

\* a return that does not wait for the publish goroutines
PMReturnNoJoin ==
  /\ entry = "main" /\ mpc = "wait"
  /\ result' = processedCount
  /\ retErr' = srcFailed
  /\ cancelled' = TRUE
  /\ mpc' = "returned"
  /\ UNCHANGED <<reqVars, aux, settledAtRead, hist,
                 srcFailed, delivered, hpc, rpc, pub, publishErr,
                 acks, nacks, acceptedCount, processedCount, mutex, recv, done,
                 timedOut, finalAccepted>>

\* main.go:214-221: wg.Wait(), the return and the deferred cancel()
PMReturn ==
  /\ entry = "main" /\ mpc = "wait"
  /\ \A m \in Msgs : rpc[m] \in {"none", "done"}
  /\ result' = processedCount
  /\ retErr' = srcFailed
  /\ cancelled' = TRUE
  /\ mpc' = "returned"
  /\ UNCHANGED <<reqVars, aux, settledAtRead, hist,
                 srcFailed, delivered, hpc, rpc, pub, publishErr,
                 acks, nacks, acceptedCount, processedCount, mutex, recv, done,
                 timedOut, finalAccepted>>

\* ---- the specification ----------------------------------------------------

\* the source and the sink
Env ==
  \/ SourceFail
  \/ \E m \in Msgs : Deliver(m)
  \/ \E m \in Msgs : SinkResolve(m, "ok")
  \/ \E m \in Msgs : SinkResolve(m, "fail")

Next ==
  \/ StartFail
  \/ StartReceive
  \/ Env
  \/ \E m \in Msgs : HLock(m)
  \/ \E m \in Msgs : HCheck(m)
  \/ \E m \in Msgs : HNack(m)
  \/ \E m \in Msgs : HCancel(m)
  \/ \E m \in Msgs : HAccept(m)
  \/ \E m \in Msgs : HPublish(m)
  \/ \E m \in Msgs : RGet(m)
  \/ \E m \in Msgs : RNack(m)
  \/ \E m \in Msgs : RAck(m)
  \/ \E m \in Msgs : RLock(m)
  \/ \E m \in Msgs : RInc(m)
  \/ ReceiveReturn
  \/ MainDone
  \/ MainTimeout
  \/ MainSleep
  \/ MainFinal

Spec == Init /\ [][Next]_vars

\* the steps of the program's own goroutines; the timer of the select fires
\* if the select is still waiting
Program ==
  \/ StartFail
  \/ StartReceive
  \/ \E m \in Msgs : HLock(m)
  \/ \E m \in Msgs : HCheck(m)
  \/ \E m \in Msgs : HNack(m)
  \/ \E m \in Msgs : HCancel(m)
  \/ \E m \in Msgs : HAccept(m)
  \/ \E m \in Msgs : HPublish(m)
  \/ \E m \in Msgs : RGet(m)
  \/ \E m \in Msgs : RNack(m)
  \/ \E m \in Msgs : RAck(m)
  \/ \E m \in Msgs : RLock(m)
  \/ \E m \in Msgs : RInc(m)
  \/ MainDone
  \/ MainTimeout
  \/ MainSleep
  \/ MainFinal

\* processShovelRequest with goroutines that keep running; nothing is
\* assumed of the source and the sink
LiveSpec == Init /\ [][Next]_vars /\ WF_vars(Program)

\* processShovelRequest when the timer never fires, the source hands over
\* what it holds and then ends the loop, and the sink resolves every publish
NextUntimed ==
  \/ StartFail
  \/ StartReceive
  \/ Env
  \/ \E m \in Msgs : HLock(m)
  \/ \E m \in Msgs : HCheck(m)
  \/ \E m \in Msgs : HNack(m)
  \/ \E m \in Msgs : HCancel(m)
  \/ \E m \in Msgs : HAccept(m)
  \/ \E m \in Msgs : HPublish(m)
  \/ \E m \in Msgs : RGet(m)
  \/ \E m \in Msgs : RNack(m)
  \/ \E m \in Msgs : RAck(m)
  \/ \E m \in Msgs : RLock(m)
  \/ \E m \in Msgs : RInc(m)
  \/ ReceiveReturn
  \/ MainDone
  \/ MainSleep
  \/ MainFinal

UntimedSpec == Init /\ [][NextUntimed]_vars /\ WF_vars(NextUntimed)

\* ---- Scenario B of the specification: target 5, the 3rd forward fails ------

\* the admission also records its ordinal (part_000:178, currentAccepted)
HAcceptOrd(m) ==
  /\ Admit(m)
  /\ ord' = [ord EXCEPT ![m] = acceptedCount + 1]

\* the sink rejects the publish of the 3rd admission and confirms the others
SinkScenarioB(m) == SinkResolve(m, IF ord[m] = 3 THEN "fail" ELSE "ok")

InitB ==
  /\ entry = "shovel"
  /\ AllMessages = FALSE /\ NumMessages = 5
  /\ srcN \in {5, 6}
  /\ precheck = "ok"
  /\ JobStart

NextB ==
  \/ StartReceive
  \/ \E m \in Msgs : Deliver(m)
  \/ \E m \in Msgs : SinkScenarioB(m)
  \/ \E m \in Msgs : HLock(m)
  \/ \E m \in Msgs : HCheck(m)
  \/ \E m \in Msgs : HNack(m)
  \/ \E m \in Msgs : HCancel(m)
  \/ \E m \in Msgs : HAcceptOrd(m)
  \/ \E m \in Msgs : HPublish(m)
  \/ \E m \in Msgs : RGet(m)
  \/ \E m \in Msgs : RNack(m)
  \/ \E m \in Msgs : RAck(m)
  \/ \E m \in Msgs : RLock(m)
  \/ \E m \in Msgs : RInc(m)
  \/ ReceiveReturn
  \/ MainDone
  \/ MainSleep
  \/ MainFinal

SpecB == InitB /\ [][NextB]_vars

\* ---- an allMessages job on a backlog larger than the limit ----------------

\* the source hands over one delivery at a time
DeliverOneByOne(m) ==
  /\ \A k \in Msgs : hpc[k] = "idle" \/ Finished(k)
  /\ Deliver(m)

InitAll ==
  /\ entry = "shovel"
  /\ AllMessages = TRUE /\ NumMessages = 0
  /\ srcN = AllMessagesLimit + 1
  /\ precheck = "ok"
  /\ JobStart

NextAll ==
  \/ StartReceive
  \/ \E m \in Msgs : DeliverOneByOne(m)
  \/ \E m \in Msgs : SinkResolve(m, "ok")
  \/ \E m \in Msgs : HLock(m)
  \/ \E m \in Msgs : HCheck(m)
  \/ \E m \in Msgs : HNack(m)
  \/ \E m \in Msgs : HCancel(m)
  \/ \E m \in Msgs : HAccept(m)
  \/ \E m \in Msgs : HPublish(m)
  \/ \E m \in Msgs : RGet(m)
  \/ \E m \in Msgs : RAck(m)
  \/ \E m \in Msgs : RLock(m)
  \/ \E m \in Msgs : RInc(m)
  \/ ReceiveReturn
  \/ MainDone
  \/ MainSleep
  \/ MainFinal

SpecAll == InitAll /\ [][NextAll]_vars

\* ---- Scenario D of the specification: an allMessages job that times out ---

\* the timeout, with the relay goroutines it finds waiting recorded
MainTimeoutMark ==
  /\ TimeoutFires
  /\ waitingAtTimeout' = {m \in Msgs : rpc[m] = "get" /\ pub[m] = "pending"}

InitD ==
  /\ entry = "shovel"
  /\ AllMessages = TRUE /\ NumMessages = 0
  /\ srcN \in 0..MaxSrc
  /\ precheck = "ok"
  /\ JobStart

\* the steps of the job's goroutines (no delivery is rejected: the source
\* holds fewer messages than AllMessagesLimit)
ProgramD ==
  \/ StartReceive
  \/ \E m \in Msgs : HLock(m)
  \/ \E m \in Msgs : HCheck(m)
  \/ \E m \in Msgs : HAccept(m)
  \/ \E m \in Msgs : HPublish(m)
  \/ \E m \in Msgs : RGet(m)
  \/ \E m \in Msgs : RNack(m)
  \/ \E m \in Msgs : RAck(m)
  \/ \E m \in Msgs : RLock(m)
  \/ \E m \in Msgs : RInc(m)
  \/ MainDone
  \/ MainTimeoutMark
  \/ MainSleep
  \/ MainFinal

NextD ==
  \/ Env
  \/ ReceiveReturn
  \/ ProgramD

SpecD == InitD /\ [][NextD]_vars /\ WF_vars(ProgramD)

PMNext ==
  \/ StartFail
  \/ StartReceive
  \/ Env
  \/ \E m \in Msgs : PMSelect(m)
  \/ \E m \in Msgs : PMSpawn(m)
  \/ \E m \in Msgs : PMRead(m)
  \/ \E m \in Msgs : PMSend(m)
  \/ \E m \in Msgs : PMAck(m)
  \/ \E m \in Msgs : PMPublish(m)
  \/ \E m \in Msgs : PMGet(m)
  \/ \E m \in Msgs : PMLock(m)
  \/ \E m \in Msgs : PMInc(m)
  \/ \E m \in Msgs : PMTaskSend(m)
  \/ PMDeadline
  \/ PMReceiveReturn
  \/ PMReturn

PMSpec == PMInit /\ [][PMNext]_vars

\* processMessages when the deadline of receiveCtx never passes
PMNextUntimed ==
  \/ StartFail
  \/ StartReceive
  \/ Env
  \/ \E m \in Msgs : PMSelect(m)
  \/ \E m \in Msgs : PMSpawn(m)
  \/ \E m \in Msgs : PMRead(m)
  \/ \E m \in Msgs : PMSend(m)
  \/ \E m \in Msgs : PMAck(m)
  \/ \E m \in Msgs : PMPublish(m)
  \/ \E m \in Msgs : PMGet(m)
  \/ \E m \in Msgs : PMLock(m)
  \/ \E m \in Msgs : PMInc(m)
  \/ \E m \in Msgs : PMTaskSend(m)
  \/ PMReceiveReturn
  \/ PMReturn

\* a job of either entry point
BothInit == entry \in {"shovel", "main"} /\ Request /\ JobStart
BothNext == Next \/ PMNext
BothSpec == BothInit /\ [][BothNext]_vars

\* a valid POST request is answered and its job runs, in either entry point
ServeInit ==
  /\ entry \in {"shovel", "main"}
  /\ method = "POST" /\ decoded = TRUE
  /\ SourceSubscription = "s" /\ TargetTopic = "t"
  /\ AllMessages \in BOOLEAN
  /\ NumMessages \in 0..MaxNum
  /\ validateRequest(AllMessages, NumMessages)
  /\ srcN \in 0..MaxInFlight
  /\ precheck \in Prechecks
  /\ status = 0
  /\ JobIdle
  /\ mpc = "handler"

ServeNext == Handler \/ Next \/ PMNext
ServeSpec == ServeInit /\ [][ServeNext]_vars

\* a job of either entry point whose timer never fires
BothNextUntimed == NextUntimed \/ PMNextUntimed
BothUntimedSpec ==
  BothInit /\ [][BothNextUntimed]_vars /\ WF_vars(BothNextUntimed)

\* ---- target 5 and one failed forward, in either implementation -----------

\* the sink rejects one publish of the job and confirms the others
SinkFailsOnce(m) ==
  \/ SinkResolve(m, "ok")
  \/ ~sinkRejected /\ SinkResolve(m, "fail")

InitOneFailure ==
  /\ entry \in {"shovel", "main"}
  /\ AllMessages = FALSE /\ NumMessages = 5
  /\ srcN = 6
  /\ precheck = "ok"
  /\ JobStart

NextOneFailure ==
  \/ StartReceive
  \/ \E m \in Msgs : Deliver(m)
  \/ \E m \in Msgs : SinkFailsOnce(m)
  \/ \E m \in Msgs : HLock(m)
  \/ \E m \in Msgs : HCheck(m)
  \/ \E m \in Msgs : HNack(m)
  \/ \E m \in Msgs : HCancel(m)
  \/ \E m \in Msgs : HAccept(m)
  \/ \E m \in Msgs : HPublish(m)
  \/ \E m \in Msgs : RGet(m)
  \/ \E m \in Msgs : RNack(m)
  \/ \E m \in Msgs : RAck(m)
  \/ \E m \in Msgs : RLock(m)
  \/ \E m \in Msgs : RInc(m)
  \/ ReceiveReturn
  \/ MainDone
  \/ MainSleep
  \/ MainFinal
  \/ \E m \in Msgs : PMSelect(m)
  \/ \E m \in Msgs : PMSpawn(m)
  \/ \E m \in Msgs : PMRead(m)
  \/ \E m \in Msgs : PMSend(m)
  \/ \E m \in Msgs : PMAck(m)
  \/ \E m \in Msgs : PMPublish(m)
  \/ \E m \in Msgs : PMGet(m)
  \/ \E m \in Msgs : PMLock(m)
  \/ \E m \in Msgs : PMInc(m)
  \/ \E m \in Msgs : PMTaskSend(m)
  \/ PMReceiveReturn
  \/ PMReturn

SpecOneFailure == InitOneFailure /\ [][NextOneFailure]_vars

TypeOK ==
  /\ acceptedCount \in 0..srcN
  /\ processedCount \in 0..srcN
  /\ done \in 0..DoneCap

\* ---- notions the claims use ------------------------------------------------

Shovel == entry = "shovel"
Bounded == ~AllMessages

\* the slot's delivery was admitted by processShovelRequest
Admitted(m) == Shovel /\ (hpc[m] = "publish" \/ rpc[m] # "none")

\* the slot's delivery has been acked or nacked
Settled(m) == acks[m] + nacks[m] > 0

\* ---- claims ------------------------------------------------------------------

\* C1: in a bounded processShovelRequest job acceptedCount never exceeds
\* NumMessages, in any reachable state and under every interleaving of the
\* callback invocations.
C1_AcceptedAtMostTarget ==
  (Shovel /\ Bounded) => acceptedCount <= NumMessages

\* C1 witness: two callback invocations race for the last slot of the target,
\* one inside the critical section and one waiting for the mutex.
C1_RaceForLastSlot ==
  /\ Shovel /\ Bounded
  /\ acceptedCount = NumMessages - 1
  /\ \E m, k \in Msgs : hpc[m] = "check" /\ hpc[k] = "lock"

\* C3: for every delivery of processShovelRequest at most one of ack and nack
\* is issued, and for an admitted delivery none is issued before result.Get
\* has returned for it.
C3_OneSettlementAfterOutcome ==
  Shovel =>
    \A m \in Msgs :
      /\ acks[m] + nacks[m] <= 1
      /\ (Admitted(m) /\ Settled(m)) => publishErr[m] # "unset"

\* C3 witness: one admitted delivery was acked and another one nacked by
\* their relay goroutines.
C3_AckedAndNacked ==
  /\ Shovel
  /\ \E m, k \in Msgs :
       /\ rpc[m] = "done" /\ acks[m] = 1 /\ publishErr[m] = "nil"
       /\ rpc[k] = "done" /\ nacks[k] = 1 /\ publishErr[k] = "err"

\* C2: every delivery admitted by processShovelRequest is eventually acked
\* or nacked by its relay goroutine, whatever the sink does and whether or
\* not cancellation is signalled.
C2_AdmittedEventuallySettled ==
  \A m \in Msgs : Admitted(m) ~> Settled(m)

\* C2 witness: a relay goroutine nacked its delivery after cancellation while
\* the sink had not resolved the publish.
C2_NackedOnCancel ==
  /\ Shovel /\ cancelled
  /\ \E m \in Msgs : rpc[m] = "done" /\ nacks[m] = 1 /\ pub[m] = "pending"

\* C4: in both entry points a delivery is acked only after its republish was
\* confirmed successful: never when the publish failed, is pending or was
\* not attempted.
C4_AckOnlyAfterConfirmedPublish ==
  \A m \in Msgs :
    acks[m] > 0 => (pub[m] = "ok" /\ publishErr[m] = "nil")

\* C10: in a bounded job of either entry point the number of messages counted
\* as republished, and the returned count, never exceed NumMessages.
C10_ProcessedAtMostNumMessages ==
  Bounded =>
    /\ processedCount <= NumMessages
    /\ mpc = "returned" => result <= NumMessages

\* the job returned a count after a run in which the timer did not fire, the
\* source did not fail and the sink rejected nothing
QuietJobEnd ==
  /\ Shovel /\ Bounded
  /\ mpc = "returned" /\ ~retErr
  /\ ~timedOut /\ ~srcFailed /\ ~sinkRejected

\* no publish is waiting for the sink
NothingPending == \A m \in Msgs : pub[m] # "pending"

\* C5: a bounded processShovelRequest job with target N whose source delivers
\* at least N messages and whose sink confirms every forward ends with
\* acceptedCount = N and publishedCount = N (stated for the runs in which
\* every relay goroutine had ended before the final read).
C5_TargetReachedWhenSinkConfirms ==
  (QuietJobEnd /\ delivered >= NumMessages /\ settledAtRead /\ NothingPending)
    => (finalAccepted = NumMessages /\ result = NumMessages)

C7_UnboundedNeverRejects ==
  (Shovel /\ AllMessages) =>
    \A m \in Msgs : hpc[m] \notin {"nack", "cancel"}

\* a relay goroutine's step that nacks after a failed forward
FailedForwardNack(m) == rpc[m] = "nack" /\ rpc'[m] = "done"

C9_ScenarioB ==
  /\ acceptedCount <= 5
  /\ (mpc = "returned" /\ sinkRejected /\ settledAtRead /\ NothingPending)
       => (finalAccepted = 5 /\ result = 4 /\ finalAccepted - result = 1)

\* admitted deliveries whose relay goroutine has not yet issued its ack or
\* nack and recorded the outcome
InFlight ==
  {m \in Msgs : Shovel /\ (hpc[m] = "publish"
                             \/ rpc[m] \in {"get", "ack", "nack", "lock", "inc"})}

\* C11: in every reachable state of a processShovelRequest job,
\* acceptedCount = publishedCount + failedCount + inFlightCount, failedCount
\* being the number of admitted deliveries nacked by their relay goroutine.
C11_CountersBalance ==
  Shovel =>
    acceptedCount = processedCount + failedCount + Cardinality(InFlight)

\* C11 witness: one delivery was published, one failed and one is in flight.
C11_OneOfEach ==
  /\ Shovel
  /\ processedCount >= 1 /\ failedCount >= 1 /\ Cardinality(InFlight) >= 1

\* C12: during a processShovelRequest job every step leaves acceptedCount and
\* processedCount unchanged or increases it by exactly one.
C12_CountersMonotone ==
  [][ Shovel =>
        /\ acceptedCount' \in {acceptedCount, acceptedCount + 1}
        /\ processedCount' \in {processedCount, processedCount + 1} ]_vars

\* C12 witness: both counters have advanced twice.
C12_BothCountersAdvanced ==
  Shovel /\ acceptedCount >= 2 /\ processedCount >= 2

\* C13: when the client creation or the existence check fails, or the target
\* topic does not exist, the job of either entry point never starts the
\* consumption loop and returns count 0 with an error: no delivery is
\* received, admitted, acked or nacked.
C13_PreconditionFailureAborts ==
  precheck # "ok" =>
    /\ recv = "idle" /\ delivered = 0
    /\ acceptedCount = 0 /\ processedCount = 0
    /\ \A m \in Msgs : hpc[m] = "idle" /\ acks[m] = 0 /\ nacks[m] = 0
    /\ mpc = "returned" => (result = 0 /\ retErr)

\* C13 witness: a job on a source holding messages returned because the
\* target topic does not exist.
C13_AbortedOnMissingTopic ==
  precheck = "notExists" /\ mpc = "returned" /\ retErr /\ srcN > 0

\* result.Get returns an error to the relay goroutine of slot m
ForwardFails(m) == rpc[m] = "get" /\ rpc'[m] = "nack"

\* C14: a failed forward in processShovelRequest does not abort the job and
\* is not returned to the caller: the failing Get and the nack leave the
\* job's context, the consumption loop, the job function and acceptedCount
\* as they are; a delivery is rejected only when no slot remains; and a job
\* that started its loop returns with a nil error.
C14_FailureDoesNotAbort ==
  [][ Shovel =>
        /\ \A m \in Msgs :
             (ForwardFails(m) \/ FailedForwardNack(m)) =>
               UNCHANGED <<cancelled, recv, mpc, retErr, acceptedCount>>
        /\ \A m \in Msgs :
             (hpc[m] = "check" /\ hpc'[m] = "nack") =>
               acceptedCount >= maxMessages
        /\ (precheck = "ok" /\ mpc # "returned" /\ mpc' = "returned") =>
             ~retErr' ]_vars

\* C14 witness: after the sink rejected a forward and its delivery was
\* nacked, the uncancelled job passes a further delivery through admission.
C14_AdmitsAfterFailure ==
  /\ Shovel /\ sinkRejected /\ failedCount >= 1 /\ ~cancelled
  /\ \E m \in Msgs : hpc[m] = "accept"

\* C15: when the consumption loop ends with an error, the job of either
\* entry point terminates without its timer having to fire, and it returns
\* the value processedCount has at that moment.
C15_LoopErrorEndsJobEarly ==
  /\ srcFailed ~> (mpc = "returned")
  /\ [][ (srcFailed /\ mpc # "returned" /\ mpc' = "returned")
           => result' = processedCount ]_vars

\* C15 witness: the loop failed before the source had handed over all it
\* holds, no timer fired, and the job returned the one success it had counted.
C15_PartialResultAfterLoopError ==
  /\ srcFailed /\ ~timedOut /\ delivered < srcN
  /\ mpc = "returned" /\ result >= 1

\* C16: in both entry points a job whose consumption loop returned a non-nil
\* error returns an error to its caller.
C16_LoopErrorSurfaced ==
  (srcFailed /\ recv = "exit" /\ mpc = "returned") => retErr

\* C17: every processShovelRequest job that started its consumption loop
\* returns its result, whatever the source delivers and whatever the sink
\* does, forwards that never resolve included.
C17_JobTerminates ==
  (Shovel /\ mpc = "select") ~> (mpc = "returned")

\* C17 witness: the job returned after the timeout while a relay goroutine
\* was still waiting for a forward the sink had not resolved.
C17_ReturnedWithForwardPending ==
  /\ Shovel /\ timedOut /\ mpc = "returned"
  /\ \E m \in Msgs : rpc[m] = "get" /\ pub[m] = "pending"

\* C18, as stated: in an allMessages job whose timeout fires while relay
\* goroutines wait for their forward outcome, the deliveries of those
\* goroutines are neither acked nor nacked.
C18_TimedOutRelaysUnsettled ==
  (Shovel /\ AllMessages) =>
    \A m \in waitingAtTimeout : acks[m] = 0 /\ nacks[m] = 0

\* C18, amended: each of those deliveries is settled by its relay goroutine
\* once result.Get returns on the cancelled context: it is nacked, or acked
\* if the sink confirmed the forward first; and the job returns the number
\* of relays that had acked and counted their success by the final read.
C18_TimedOutRelaysSettled ==
  /\ \A m \in Msgs : (m \in waitingAtTimeout) ~> Settled(m)
  /\ [](\A m \in waitingAtTimeout :
          /\ acks[m] > 0 => (pub[m] = "ok" /\ nacks[m] = 0)
          /\ acks[m] = 0 /\ Settled(m) => nacks[m] = 1)
  /\ [][ (mpc = "final" /\ mpc' = "returned")
           => result' = acceptedCount - failedCount - Cardinality(InFlight)
     ]_vars

\* C18 witness: the timed-out job returned, and a relay goroutine that was
\* waiting when the timeout fired has nacked its delivery, the forward still
\* unresolved.
C18_NackedAfterTimeout ==
  /\ Shovel /\ AllMessages /\ timedOut /\ mpc = "returned"
  /\ \E m \in waitingAtTimeout : nacks[m] = 1 /\ pub[m] = "pending"

\* the handler has answered a POST request whose body decoded
ValidatedPost == mpc # "handler" /\ method = "POST" /\ decoded

\* exactly one mode, an unset numMessages being the zero value
ExactlyOneMode(all, n) == (~all /\ n > 0) \/ (all /\ n = 0)

\* exactly one mode, numMessages counting as set when it is positive
OneModeSelected(all, n) == (~all /\ n > 0) \/ (all /\ n <= 0)

C20_JobOnlyForValidPost ==
  mpc # "handler" =>
    LET valid == ValidationError(SourceSubscription, TargetTopic,
                                 AllMessages, NumMessages) = "nil"
    IN /\ mpc = "start" <=> (method = "POST" /\ decoded /\ valid)
       /\ mpc = "start" <=> status = StatusAccepted
       /\ method = "OPTIONS" => (status = StatusNoContent /\ mpc = "refused")
       /\ method \notin {"OPTIONS", "POST"}
            => (status = StatusMethodNotAllowed /\ mpc = "refused")
       /\ (method = "POST" /\ ~(decoded /\ valid))
            => (status = StatusBadRequest /\ mpc = "refused")

\* C20 witness: a GET request that carries a valid body was answered 405 and
\* no job was started.
C20_ValidBodyWrongMethod ==
  /\ mpc = "refused" /\ method = "GET" /\ decoded
  /\ status = StatusMethodNotAllowed
  /\ ValidationError(SourceSubscription, TargetTopic,
                     AllMessages, NumMessages) = "nil"

\* C21: a valid POST is answered 202 with status "accepted" and a requestId
\* when the job is started, before any step of the job; the answer is not
\* changed by what the job does later (success, failed precondition check,
\* timeout).
C21_AcceptedWithoutWaiting ==
  /\ [](mpc \notin {"handler", "refused"} =>
          /\ status = StatusAccepted
          /\ ResponseBody(status).status = "accepted"
          /\ ResponseBody(status).requestId)
  /\ [][ /\ (mpc = "handler" /\ mpc' = "start") =>
             (recv' = "idle" /\ result' = 0 /\ ~retErr' /\ ~timedOut')
         /\ status # 0 => status' = status ]_vars

\* C21 witness: the request was answered 202 and its job later timed out and
\* returned.
C21_AcceptedThenTimedOut ==
  status = StatusAccepted /\ mpc = "returned" /\ timedOut /\ srcN > 0

\* C22: in a bounded processShovelRequest job cancellation is signalled by
\* the admission that brings acceptedCount to the target, without a further
\* delivery: once the target is reached and every callback invocation has
\* returned, the job's context is cancelled.
C22_CancelledWhenTargetReached ==
  (Shovel /\ Bounded /\ acceptedCount = NumMessages /\ ActiveHandlers = {})
    => cancelled

\* C23: once cancellation has been signalled in a processShovelRequest job
\* (by count or by timeout), no callback invocation admits a delivery any
\* more: the admission test of no invocation succeeds after the signal.
C23_NoAdmissionAfterCancel ==
  [][ (Shovel /\ cancelled) =>
        \A m \in Msgs : ~(hpc[m] = "check" /\ hpc'[m] = "accept") ]_vars

\* result.Get returns to the relay goroutine of slot m
GetReturns(m) == Shovel /\ rpc[m] = "get" /\ rpc'[m] # "get"

\* C24, as stated: when the job's context is cancelled before a relay
\* goroutine has observed its forward confirmation, the goroutine nacks its
\* delivery and never acks it.
C24_CancelledRelayNacks ==
  [][ \A m \in Msgs :
        (cancelled /\ GetReturns(m)) => rpc'[m] = "nack" ]_vars

\* C24, amended: when result.Get returns the context's error, or returns
\* while the context is cancelled and the sink has not confirmed, the
\* goroutine nacks, never acks, and leaves processedCount unchanged; a
\* goroutine whose forward the sink has confirmed may still get the
\* confirmation from Get after the cancellation, and then acks.
C24_CancelledRelayNacksUnlessConfirmed ==
  [][ \A m \in Msgs :
        /\ (cancelled /\ GetReturns(m) /\ pub[m] # "ok") => rpc'[m] = "nack"
        /\ (cancelled /\ GetReturns(m) /\ rpc'[m] = "ack") => pub[m] = "ok"
        /\ (GetReturns(m) /\ publishErr'[m] = "err") => rpc'[m] = "nack"
        /\ (Shovel /\ FailedForwardNack(m)) =>
             /\ acks'[m] = 0 /\ nacks'[m] = 1
             /\ processedCount' = processedCount ]_vars

\* C24 witness: after the cancellation a relay goroutine whose forward is
\* unresolved is about to nack its delivery.
C24_AboutToNackOnCancel ==
  /\ Shovel /\ cancelled
  /\ \E m \in Msgs : rpc[m] = "nack" /\ pub[m] = "pending" /\ nacks[m] = 0

\* what a further cancel() must leave alone
jobState == <<cancelled, recv, rpc, pub, publishErr, acks, nacks,
              acceptedCount, processedCount, mutex>>

\* C25: the cancellation signal of a processShovelRequest job stays signalled
\* once it is signalled, and a further cancel() (of another rejected
\* delivery, of the timeout, of the deferred call at return) changes nothing
\* of the job state but the position of the caller.
C25_CancelOneShot ==
  [][ Shovel =>
        /\ cancelled => cancelled'
        /\ \A m \in Msgs :
             (cancelled /\ hpc[m] = "cancel" /\ hpc'[m] = "ret") =>
               UNCHANGED <<jobState, mpc, timedOut, result>>
        /\ (cancelled /\ ~timedOut /\ timedOut') =>
             UNCHANGED <<jobState, hpc>>
        /\ (cancelled /\ mpc = "final" /\ mpc' = "returned") =>
             UNCHANGED <<jobState, hpc, timedOut>> ]_vars

\* C25 witness: a rejected delivery signalled cancellation, a second rejected
\* delivery signalled it again, and the timeout fired as well.
C25_SignalledThreeTimes ==
  /\ Shovel /\ cancelled /\ timedOut
  /\ \E m, k \in Msgs :
       /\ m # k
       /\ hpc[m] = "ret" /\ rpc[m] = "none" /\ nacks[m] = 1
       /\ hpc[k] = "ret" /\ rpc[k] = "none" /\ nacks[k] = 1

\* C26: processShovelRequest reads the final counters only after the
\* consumption loop signalled its end or the timeout fired and cancelled, and
\* after the sleep that follows; the result is never read while the loop is
\* running uncancelled.
C26_ReadAfterRunningAndGrace ==
  /\ []((Shovel /\ precheck = "ok" /\ mpc \in {"sleep", "final", "returned"})
          => (recv = "exit" \/ (timedOut /\ cancelled)))
  /\ [][ Shovel =>
           /\ (mpc # "sleep" /\ mpc' = "sleep") => mpc = "select"
           /\ (mpc # "final" /\ mpc' = "final") => mpc = "sleep"
           /\ (precheck = "ok" /\ mpc # "returned" /\ mpc' = "returned")
                => mpc = "final"
           /\ <<result, finalAccepted>>' # <<result, finalAccepted>>
                => mpc = "final" ]_vars

\* C26 witness: the loop signalled its end, the sleep is over and the job is
\* about to read a counter that is not zero; no timeout fired.
C26_AboutToReadAfterLoopEnd ==
  /\ Shovel /\ mpc = "final" /\ recv = "exit" /\ ~timedOut
  /\ processedCount >= 1

\* C27: after the final read of processShovelRequest no goroutine changes
\* acceptedCount or processedCount any more and no ack or nack is issued.
C27_NothingAfterFinalRead ==
  [][ (Shovel /\ mpc = "returned") =>
        UNCHANGED <<acceptedCount, processedCount, acks, nacks>> ]_vars

\* C28: processedCount <= acceptedCount in every reachable state of a
\* processShovelRequest job and in the returned result, and the final read
\* takes both counters in one critical section of the mutex.
C28_ConsistentSnapshot ==
  /\ [](Shovel =>
          /\ processedCount <= acceptedCount
          /\ mpc = "returned" => result <= finalAccepted)
  /\ [][ (Shovel /\ mpc = "final" /\ mpc' = "returned") =>
           /\ mutex = Free /\ mutex' = Free
           /\ result' = processedCount
           /\ finalAccepted' = acceptedCount ]_vars

\* C28 witness: the job returned fewer published than accepted messages.
C28_ReturnedFewerThanAccepted ==
  /\ Shovel /\ mpc = "returned"
  /\ result >= 1 /\ result < finalAccepted

\* the delivery of slot m was rejected by the admission test
Rejected(m) ==
  Shovel /\ (hpc[m] \in {"nack", "cancel"} \/ (hpc[m] = "ret" /\ rpc[m] = "none"))

\* C29: a delivery rejected by the admission test of processShovelRequest is
\* rejected with acceptedCount at the limit, is nacked as the first thing
\* after the test, is never published to the sink and never acked, and its
\* rejection leaves acceptedCount and processedCount unchanged.
C29_RejectedNackedNotForwarded ==
  /\ [](\A m \in Msgs :
          Rejected(m) =>
            /\ pub[m] = "none" /\ rpc[m] = "none" /\ acks[m] = 0
            /\ nacks[m] = IF hpc[m] = "nack" THEN 0 ELSE 1)
  /\ [][ \A m \in Msgs :
           /\ (Shovel /\ hpc[m] = "check" /\ hpc'[m] = "nack") =>
                /\ acceptedCount >= maxMessages
                /\ UNCHANGED <<acceptedCount, processedCount>>
           /\ (Rejected(m) /\ hpc'[m] # hpc[m] /\ hpc[m] # "ret") =>
                /\ UNCHANGED <<acceptedCount, processedCount>>
                /\ hpc[m] = "nack" => (hpc'[m] = "cancel" /\ nacks'[m] = 1)
     ]_vars

\* C29 witness: a bounded job at its target has rejected and nacked a
\* delivery, and the callback invocation has returned.
C29_RejectedAtTarget ==
  /\ Shovel /\ Bounded /\ acceptedCount = NumMessages /\ ~timedOut
  /\ \E m \in Msgs : hpc[m] = "ret" /\ rpc[m] = "none" /\ nacks[m] = 1

\* C30: each forward the sink has confirmed leads to one ack of its delivery
\* and one increment of processedCount: a delivery whose forward is confirmed
\* and whose goroutine has ended was acked once, not nacked, and counted; no
\* delivery is acked twice; a goroutine on its way to the increment has acked.
C30_ConfirmedForwardAckedAndCounted ==
  Shovel =>
    \A m \in Msgs :
      /\ acks[m] <= 1
      /\ rpc[m] \in {"lock", "inc"} => acks[m] = 1
      /\ (pub[m] = "ok" /\ rpc[m] = "done") =>
           (acks[m] = 1 /\ nacks[m] = 0 /\ processedCount >= 1)

\* a slot the next delivery can take
SlotAvailable == IdleSlots \cup FinishedSlots # {}

\* C31: a callback invocation of processShovelRequest returns without
\* waiting for the confirmation of its forward, and an unresolved forward
\* holds nothing else back: the callback that has published can return, the
\* loop can hand over the next delivery, a waiting callback can take the free
\* mutex and be admitted, and a goroutine whose own forward is resolved can go
\* on, whatever the other forwards are doing.
C31_ForwardDoesNotBlockLoop ==
  Shovel =>
    /\ \A m \in Msgs : hpc[m] = "publish" => ENABLED HPublish(m)
    /\ \A m \in Msgs : (hpc[m] = "ret" /\ rpc[m] = "get") => pub[m] # "none"
    /\ (recv = "receiving" /\ ~HandlerCtxDone /\ delivered < srcN
          /\ SlotAvailable) => \E m \in Msgs : ENABLED Deliver(m)
    /\ \A m \in Msgs : (hpc[m] = "lock" /\ MutexFree) => ENABLED HLock(m)
    /\ \A m \in Msgs : hpc[m] = "accept" => ENABLED HAcceptOrd(m)
    /\ \A m \in Msgs :
         (rpc[m] = "get" /\ pub[m] \in {"ok", "fail"}) => ENABLED RGet(m)

\* the forward admitted first is still unresolved, its callback has returned,
\* and the delivery admitted second is already acked and counted
C31_SecondAdmittedDoneFirst ==
  \E m, k \in Msgs :
    /\ Shovel /\ m # k
    /\ ord[m] = 1 /\ hpc[m] = "ret" /\ rpc[m] = "get" /\ pub[m] = "pending"
    /\ acceptedCount = 2 /\ processedCount = 1
    /\ rpc[k] = "done" /\ acks[k] = 1

\* C32: the two implementations stop on different counts.
\* processShovelRequest tests acceptedCount: a delivery is rejected only once
\* acceptedCount has reached the target and admitted only below it, so with
\* target 5 it never admits a 6th. processMessages tests processedCount: the
\* stop signal is raised, and a delivery skipped, only once processedCount has
\* reached the target, so a failed forward leaves room for a 6th relay.
C32_DifferentStopTriggers ==
  /\ Shovel =>
       /\ acceptedCount <= NumMessages
       /\ \A m \in Msgs :
            /\ hpc[m] = "nack" => acceptedCount >= NumMessages
            /\ hpc[m] = "accept" => acceptedCount < NumMessages
  /\ entry = "main" =>
       /\ done > 0 => processedCount >= NumMessages
       /\ \A m \in Msgs :
            /\ (hpc[m] = "send" \/ rpc[m] = "send") =>
                 processedCount >= NumMessages
            /\ (hpc[m] \in {"ack", "ret"} /\ rpc[m] = "none") =>
                 processedCount >= NumMessages
            /\ (hpc[m] = "spawn" /\ processedCount < NumMessages) =>
                 ENABLED PMSpawn(m)

\* processMessages with target 5: six deliveries were made, four forwards are
\* counted, one was rejected by the sink, and one more forward is on its way
C32_SixthRelayed ==
  /\ entry = "main" /\ NumMessages = 5
  /\ delivered = 6 /\ processedCount = 4 /\ sinkRejected
  /\ \E m, k \in Msgs :
       /\ m # k
       /\ rpc[m] = "get" /\ pub[m] = "pending"
       /\ rpc[k] = "done" /\ hpc[k] = "ret"

\* every other delivery is over: its callback returned, its goroutine ended
AloneInFlight(m) == \A k \in Msgs \ {m} : hpc[k] = "idle" \/ Finished(k)

\* C33: in a bounded processMessages job the stop signal is sticky: a callback
\* invocation that starts after processedCount reached NumMessages and the
\* goroutine that counted the last success has raised the signal and ended
\* takes the `done` case of its select and does not republish.
C33_StopSignalSticky ==
  [][ \A m \in Msgs :
        ( /\ entry = "main" /\ Bounded
          /\ processedCount >= NumMessages
          /\ AloneInFlight(m)
          /\ hpc[m] = "select" /\ hpc'[m] # "select" )
        => hpc'[m] = "ack" ]_vars

\* C34: the consumption goroutine of processShovelRequest always terminates:
\* whenever it is at its send on `done`, the job function is still at the
\* select that receives from `done`, so the send is received.
C34_DoneSendAlwaysReceived ==
  (Shovel /\ recv = "sending") => mpc = "select"

\* C35: in a bounded processMessages job, once NumMessages messages are
\* republished and counted and every callback and goroutine of the deliveries
\* made so far has ended, the job has stopped receiving: no further delivery
\* is handed to the callback.
C35_StopsReceivingAtTarget ==
  [][ ( /\ entry = "main" /\ Bounded
        /\ mpc = "receive"
        /\ processedCount >= NumMessages
        /\ \A k \in Msgs : hpc[k] = "idle" \/ Finished(k) )
      => delivered' = delivered ]_vars

\* C36: in a bounded processShovelRequest job that rejects a delivery (the
\* source delivered more than the target), the rejection signals
\* cancellation, the consumption loop then returns and its goroutine comes to
\* the send on `done`, and the job returns through the `done` case of its
\* select, the timer not having fired.
C36_RejectionCompletesJob ==
  /\ [][ \A m \in Msgs :
          (Shovel /\ hpc[m] = "cancel" /\ hpc'[m] # "cancel") => cancelled' ]_vars
  /\ []( (Shovel /\ Bounded /\ cancelled /\ recv = "receiving"
             /\ ActiveHandlers = {}) => ENABLED ReceiveReturn )
  /\ (Shovel /\ Bounded /\ cancelled /\ recv = "receiving")
       ~> (recv \in {"sending", "exit"})
  /\ (Shovel /\ Bounded /\ \E m \in Msgs : Rejected(m))
       ~> (mpc = "returned" /\ recv = "exit" /\ ~timedOut)

\* the job is past its select through the `done` case: a delivery was
\* rejected, and the loop ended on the cancellation with messages left in the
\* source
C36_EndedOnRejection ==
  /\ Shovel /\ Bounded /\ srcN > NumMessages
  /\ mpc = "sleep" /\ recv = "exit" /\ ~timedOut
  /\ cancelled /\ ~srcFailed /\ delivered < srcN
  /\ \E m \in Msgs : hpc[m] = "ret" /\ rpc[m] = "none" /\ nacks[m] = 1

\* C37: processMessages returns only after every publish goroutine it
\* started has ended. processedCount is incremented once for each Get that
\* returned nil, by the goroutine that observed it; at the return no callback
\* is running and no goroutine is left between its Get and its end; the value
\* returned is processedCount; nothing changes processedCount afterwards.
C37_ReturnsAfterFullJoin ==
  /\ [][ (entry = "main" /\ processedCount' # processedCount) =>
          /\ processedCount' = processedCount + 1
          /\ \E m \in Msgs :
               /\ rpc[m] = "inc" /\ rpc'[m] # "inc"
               /\ publishErr[m] = "nil" ]_vars
  /\ []( (entry = "main" /\ mpc = "returned" /\ precheck = "ok") =>
          /\ \A m \in Msgs : hpc[m] \in {"idle", "ret"}
          /\ \A m \in Msgs : rpc[m] \in {"none", "done"}
          /\ result = processedCount )
  /\ [][ (entry = "main" /\ mpc = "returned") =>
          (processedCount' = processedCount /\ rpc' = rpc) ]_vars

\* processMessages has returned the count of its successful publishes, one
\* publish having succeeded and another failed
C37_ReturnedAfterMixedOutcomes ==
  /\ entry = "main" /\ mpc = "returned" /\ ~retErr
  /\ result = 1 /\ processedCount = 1
  /\ \E m, k \in Msgs :
       /\ rpc[m] = "done" /\ publishErr[m] = "nil"
       /\ rpc[k] = "done" /\ publishErr[k] = "err"

====
